---- MODULE Spec2Model ----
(***************************************************************************)
(* change-ddio.c: locate the PCIe root port covering a NIC's bus and       *)
(* read-modify-write bits 7 and 3 of its perfctrlsts_0 register (0x180).   *)
(*                                                                         *)
(* A 32-bit register value is modelled as the set of its set bit           *)
(* positions (a subset of 0..31), so that |, & and ~ keep their 32-bit     *)
(* meaning: x | y is the union, x & y the intersection, ~x the complement  *)
(* within 0..31.                                                           *)
(***************************************************************************)
EXTENDS Integers, Sequences, FiniteSets, TLC

VARIABLES
  argc, argv,              \* the command line: argv[i] is C's argv[i], i >= 1
  nic_bus,                 \* main's parsed uint8_t arguments
  use_allocating_flow_wr,
  nosnoopopwren,
  hw,                      \* the machine's PCI devices (config space contents)
  pacc,                    \* the global pci_access handle: <<>> is NULL
  dev,                     \* main's dev (index into the device list, 0 is NULL)
  cfg_dev,                 \* ddio_configure's dev
  val_before, val_new, val_after,
  pc,                      \* position of the single thread of control
  exit_status,             \* <<>> while the process runs, <<code>> once it ended
  success_msg,             \* "Configuration applied successfully!" was printed
  status_ret,              \* <<>> before ddio_status returned, <<value>> after
  log,                     \* history: accesses to offset 0x180, in order
  scans,                   \* history: walks of the device list by find_ddio_device
  populations,             \* history: calls of pci_scan_bus
  io_failed,               \* history: some access to offset 0x180 failed
  finals                   \* history: register value at each return of ddio_configure

vars == <<argc, argv, nic_bus, use_allocating_flow_wr, nosnoopopwren, hw, pacc,
          dev, cfg_dev, val_before, val_new, val_after, pc, exit_status,
          success_msg, status_ret, log, scans, populations, io_failed, finals>>

(***************************************************************************)
(* Bounds of the model.                                                    *)
(***************************************************************************)
MaxDevs == 2       \* devices on the machine
MaxApply == 2      \* consecutive ddio_configure calls made by a library caller

(***************************************************************************)
(* 32-bit words as bit sets.                                               *)
(***************************************************************************)
WordBits == 32
BitPositions == 0 .. (WordBits - 1)

RECURSIVE BitsFrom(_, _)
BitsFrom(n, k) ==
  IF n = 0 \/ k >= WordBits THEN {}
  ELSE (IF n % 2 = 1 THEN {k} ELSE {}) \cup BitsFrom(n \div 2, k + 1)

\* the word whose value is the non-negative number n
Bits(n) == BitsFrom(n, 0)

BitOr(x, y) == x \cup y
BitAnd(x, y) == x \cap y
BitNot(x) == BitPositions \ x
AllOnes == BitPositions

SKX_PERFCTRLSTS_0 == 384
SKX_use_allocating_flow_wr_MASK == Bits(128)
SKX_nosnoopopwren_MASK == Bits(8)

NULL == 0
NULL_PACC == <<>>

(***************************************************************************)
(* C conversions used by main.                                             *)
(***************************************************************************)
Uint8Range == 256
ToUint8(n) == n % Uint8Range

DigitVal(c) ==
  CASE c = "0" -> 0 [] c = "1" -> 1 [] c = "2" -> 2 [] c = "3" -> 3
    [] c = "4" -> 4 [] c = "5" -> 5 [] c = "6" -> 6 [] c = "7" -> 7
    [] c = "8" -> 8 [] c = "9" -> 9 [] c = "a" -> 10 [] c = "b" -> 11
    [] c = "c" -> 12 [] c = "d" -> 13 [] c = "e" -> 14 [] c = "f" -> 15
    [] OTHER -> 99

\* the digits of s from position i on, in the given base, stopping at the
\* first character that is no digit of that base
RECURSIVE ParseDigits(_, _, _, _)
ParseDigits(s, i, base, acc) ==
  IF i > Len(s) \/ DigitVal(s[i]) >= base THEN acc
  ELSE ParseDigits(s, i + 1, base, acc * base + DigitVal(s[i]))

HasSign(s) == Len(s) >= 1 /\ s[1] \in {"-", "+"}
SignOf(s) == IF Len(s) >= 1 /\ s[1] = "-" THEN -1 ELSE 1

\* atoi(s): optional sign, then decimal digits
Atoi(s) == SignOf(s) * ParseDigits(s, IF HasSign(s) THEN 2 ELSE 1, 10, 0)

\* strtol(s, NULL, 0): optional sign, then 0x + hex, 0 + octal, or decimal
Strtol0(s) ==
  LET i == IF HasSign(s) THEN 2 ELSE 1
      hex == Len(s) >= i + 2 /\ s[i] = "0" /\ s[i + 1] = "x"
                /\ DigitVal(s[i + 2]) < 16
      oct == ~hex /\ Len(s) >= i /\ s[i] = "0"
  IN SignOf(s) * (IF hex THEN ParseDigits(s, i + 2, 16, 0)
                  ELSE IF oct THEN ParseDigits(s, i, 8, 0)
                  ELSE ParseDigits(s, i, 10, 0))

(***************************************************************************)
(* The inputs: command lines and machines.                                 *)
(***************************************************************************)
BusArgs == { <<"0", "x", "1", "7">>, <<"2", "4">> }
FlagArgs == { <<"0">>, <<"1">>, <<"2">>, <<"2", "5", "6">>, <<"-", "2", "5", "5">> }
ExtraArgs == { <<"0">> }
ArgCounts == 3 .. 5

CommandLines ==
  { <<n, SubSeq(<<p, a, b, x>>, 1, n - 1)>> :
      n \in ArgCounts, p \in BusArgs, a \in FlagArgs, b \in FlagArgs, x \in ExtraArgs }

\* a device's own bus number, and the secondary/subordinate bytes of its
\* configuration space
BusNumbers == {5, 16, 255}
BusRanges == { <<6, 23>>, <<24, 23>>, <<6, 24>> }
MainRegVals == { Bits(0), AllOnes }
EditRegVals == { Bits(0), Bits(136), Bits(128), Bits(8), AllOnes,
                 AllOnes \ Bits(136), Bits(305419896) \cup {31} }

Devices(regvals) ==
  { [bus |-> b, secondary |-> r[1], subordinate |-> r[2], ctrl |-> v] :
      b \in BusNumbers, r \in BusRanges, v \in regvals }

SeqsUpTo(S, n) == UNION { [1 .. k -> S] : k \in 0 .. n }

Machines == SeqsUpTo(Devices(MainRegVals), MaxDevs)

(***************************************************************************)
(* init_pci_access: pci_alloc, pci_init, pci_scan_bus.  The device list    *)
(* holds each device's own bus number; device i of the list is hw[i].      *)
(***************************************************************************)
ScannedDevices == [i \in 1 .. Len(hw) |-> hw[i].bus]

init_pci_access ==
  /\ pacc' = <<ScannedDevices>>
  /\ populations' = populations + 1

(***************************************************************************)
(* find_ddio_device: one walk of pacc->devices.                            *)
(***************************************************************************)
LowestBusInit == 255       \* uint8_t lowest_bus = 0xff

covers(i, nic) ==
  /\ hw[i].subordinate = nic
  /\ hw[i].secondary <= nic
  /\ hw[i].subordinate >= nic

RECURSIVE FindLoop(_, _, _, _, _)
FindLoop(devices, i, nic, lowest_bus, best_match) ==
  IF i > Len(devices) THEN best_match
  ELSE IF covers(i, nic) /\ devices[i] < lowest_bus
       THEN FindLoop(devices, i + 1, nic, devices[i], i)
       ELSE FindLoop(devices, i + 1, nic, lowest_bus, best_match)

find_ddio_device(devices, nic) == FindLoop(devices, 1, nic, LowestBusInit, NULL)

(***************************************************************************)
(* Accesses to the perfctrlsts_0 register of device d.  A failed           *)
(* pci_read_long yields all ones; a failed pci_write_long leaves the       *)
(* register as it was.  Neither result is looked at by the callers.        *)
(***************************************************************************)
pci_read_long(d, ok) == IF ok THEN hw[d].ctrl ELSE AllOnes

pci_write_long(d, v, ok) == IF ok THEN [hw EXCEPT ![d].ctrl = v] ELSE hw

Access(op, d, v) == [op |-> op, off |-> SKX_PERFCTRLSTS_0, dev |-> d, val |-> v]

exit(code) ==
  /\ exit_status' = <<code>>
  /\ pc' = "exited"

(***************************************************************************)
(* The new register value computed by ddio_configure.                      *)
(***************************************************************************)
\* mutant: '&= MASK' in place of '&= ~MASK'
ddio_new_value_AndMask(before, flow_wr, nosnoop) ==
  LET v1 == IF flow_wr # 0
            THEN BitOr(before, SKX_use_allocating_flow_wr_MASK)
            ELSE BitAnd(before, SKX_use_allocating_flow_wr_MASK)
  IN IF nosnoop # 0
     THEN BitOr(v1, SKX_nosnoopopwren_MASK)
     ELSE BitAnd(v1, SKX_nosnoopopwren_MASK)

\* mutant: the else branches (clearing a bit) are missing
ddio_new_value_NoClear(before, flow_wr, nosnoop) ==
  LET v1 == IF flow_wr # 0
            THEN BitOr(before, SKX_use_allocating_flow_wr_MASK)
            ELSE before
  IN IF nosnoop # 0 THEN BitOr(v1, SKX_nosnoopopwren_MASK) ELSE v1

\* mutant: '^=' in place of '|=' (the bit is toggled, not set)
ddio_new_value_Toggle(before, flow_wr, nosnoop) ==
  LET xor(x, m) == (x \ m) \cup (m \ x)
      v1 == IF flow_wr # 0
            THEN xor(before, SKX_use_allocating_flow_wr_MASK)
            ELSE BitAnd(before, BitNot(SKX_use_allocating_flow_wr_MASK))
  IN IF nosnoop # 0
     THEN xor(v1, SKX_nosnoopopwren_MASK)
     ELSE BitAnd(v1, BitNot(SKX_nosnoopopwren_MASK))

ddio_new_value(before, flow_wr, nosnoop) ==
  LET v1 == IF flow_wr # 0
            THEN BitOr(before, SKX_use_allocating_flow_wr_MASK)
            ELSE BitAnd(before, BitNot(SKX_use_allocating_flow_wr_MASK))
  IN IF nosnoop # 0
     THEN BitOr(v1, SKX_nosnoopopwren_MASK)
     ELSE BitAnd(v1, BitNot(SKX_nosnoopopwren_MASK))

(***************************************************************************)
(* main, up to the call of init_pci_access.                                *)
(***************************************************************************)
main_args ==
  /\ pc = "main"
  /\ IF argc # 4
     THEN /\ exit(1)
          /\ UNCHANGED <<nic_bus, use_allocating_flow_wr, nosnoopopwren>>
     ELSE /\ nic_bus' = ToUint8(Strtol0(argv[1]))
          /\ use_allocating_flow_wr' = ToUint8(Atoi(argv[2]))
          /\ nosnoopopwren' = ToUint8(Atoi(argv[3]))
          /\ IF use_allocating_flow_wr' > 1 \/ nosnoopopwren' > 1
             THEN exit(1)
             ELSE pc' = "init" /\ UNCHANGED exit_status
  /\ UNCHANGED <<argc, argv, hw, pacc, dev, cfg_dev, val_before, val_new,
                 val_after, success_msg, status_ret, log, scans, populations,
                 io_failed, finals>>

main_init ==
  /\ pc = "init"
  /\ init_pci_access
  /\ pc' = "find"
  /\ UNCHANGED <<argc, argv, nic_bus, use_allocating_flow_wr, nosnoopopwren, hw,
                 dev, cfg_dev, val_before, val_new, val_after, exit_status,
                 success_msg, status_ret, log, scans, io_failed, finals>>

main_find ==
  /\ pc = "find"
  /\ dev' = find_ddio_device(pacc[1], nic_bus)
  /\ scans' = scans + 1
  /\ pc' = "print"
  /\ UNCHANGED <<argc, argv, nic_bus, use_allocating_flow_wr, nosnoopopwren, hw,
                 pacc, cfg_dev, val_before, val_new, val_after, exit_status,
                 success_msg, status_ret, log, populations, io_failed, finals>>

\* mutant: the missing device is reported but the process ends with status 0
print_dev_info_ExitZero ==
  /\ pc = "print"
  /\ IF dev = NULL THEN exit(0) ELSE pc' = "configure" /\ UNCHANGED exit_status
  /\ UNCHANGED <<argc, argv, nic_bus, use_allocating_flow_wr, nosnoopopwren, hw,
                 pacc, dev, cfg_dev, val_before, val_new, val_after,
                 success_msg, status_ret, log, scans, populations, io_failed,
                 finals>>

print_dev_info ==
  /\ pc = "print"
  /\ IF dev = NULL THEN exit(1) ELSE pc' = "configure" /\ UNCHANGED exit_status
  /\ UNCHANGED <<argc, argv, nic_bus, use_allocating_flow_wr, nosnoopopwren, hw,
                 pacc, dev, cfg_dev, val_before, val_new, val_after,
                 success_msg, status_ret, log, scans, populations, io_failed,
                 finals>>

(***************************************************************************)
(* ddio_configure, in the steps of its accesses to the hardware.           *)
(***************************************************************************)
\* mutant: the test of pacc is missing, so every call scans the bus again
ddio_configure_find_AlwaysInit ==
  /\ pc = "configure"
  /\ init_pci_access
  /\ cfg_dev' = find_ddio_device(pacc'[1], nic_bus)
  /\ scans' = scans + 1
  /\ IF cfg_dev' = NULL THEN exit(1) ELSE pc' = "cfg_read" /\ UNCHANGED exit_status
  /\ UNCHANGED <<argc, argv, nic_bus, use_allocating_flow_wr, nosnoopopwren, hw,
                 dev, val_before, val_new, val_after, success_msg, status_ret,
                 log, io_failed, finals>>

ddio_configure_find ==
  /\ pc = "configure"
  /\ IF pacc = NULL_PACC
     THEN init_pci_access
     ELSE UNCHANGED <<pacc, populations>>
  /\ cfg_dev' = find_ddio_device(pacc'[1], nic_bus)
  /\ scans' = scans + 1
  /\ IF cfg_dev' = NULL THEN exit(1) ELSE pc' = "cfg_read" /\ UNCHANGED exit_status
  /\ UNCHANGED <<argc, argv, nic_bus, use_allocating_flow_wr, nosnoopopwren, hw,
                 dev, val_before, val_new, val_after, success_msg, status_ret,
                 log, io_failed, finals>>

ddio_configure_read(ok) ==
  /\ pc = "cfg_read"
  /\ val_before' = pci_read_long(cfg_dev, ok)
  /\ log' = Append(log, Access("read", cfg_dev, val_before'))
  /\ io_failed' = (io_failed \/ ~ok)
  /\ pc' = "cfg_write"
  /\ UNCHANGED <<argc, argv, nic_bus, use_allocating_flow_wr, nosnoopopwren, hw,
                 pacc, dev, cfg_dev, val_new, val_after, exit_status,
                 success_msg, status_ret, scans, populations, finals>>

ddio_configure_write(ok) ==
  /\ pc = "cfg_write"
  /\ val_new' = ddio_new_value(val_before, use_allocating_flow_wr, nosnoopopwren)
  /\ hw' = pci_write_long(cfg_dev, val_new', ok)
  /\ log' = Append(log, Access("write", cfg_dev, val_new'))
  /\ io_failed' = (io_failed \/ ~ok)
  /\ pc' = "cfg_readback"
  /\ UNCHANGED <<argc, argv, nic_bus, use_allocating_flow_wr, nosnoopopwren,
                 pacc, dev, cfg_dev, val_before, val_after, exit_status,
                 success_msg, status_ret, scans, populations, finals>>

ddio_configure_readback(ok) ==
  /\ pc = "cfg_readback"
  /\ val_after' = pci_read_long(cfg_dev, ok)
  /\ log' = Append(log, Access("read", cfg_dev, val_after'))
  /\ io_failed' = (io_failed \/ ~ok)
  /\ success_msg' = TRUE
  /\ finals' = Append(finals, hw[cfg_dev].ctrl)
  /\ pc' = "cfg_ret"
  /\ UNCHANGED <<argc, argv, nic_bus, use_allocating_flow_wr, nosnoopopwren, hw,
                 pacc, dev, cfg_dev, val_before, val_new, exit_status,
                 status_ret, scans, populations>>

(***************************************************************************)
(* main after ddio_configure returned: pci_cleanup, return 0.              *)
(***************************************************************************)
main_exit ==
  /\ pc = "cfg_ret"
  /\ pacc' = NULL_PACC
  /\ exit(0)
  /\ UNCHANGED <<argc, argv, nic_bus, use_allocating_flow_wr, nosnoopopwren, hw,
                 dev, cfg_dev, val_before, val_new, val_after, success_msg,
                 status_ret, log, scans, populations, io_failed, finals>>

(***************************************************************************)
(* The program: one run of main on any command line and any machine, with  *)
(* every access to the register succeeding or failing.                     *)
(***************************************************************************)
Init ==
  /\ \E cl \in CommandLines : argc = cl[1] /\ argv = cl[2]
  /\ hw \in Machines
  /\ nic_bus = 0 /\ use_allocating_flow_wr = 0 /\ nosnoopopwren = 0
  /\ pacc = NULL_PACC
  /\ dev = NULL /\ cfg_dev = NULL
  /\ val_before = Bits(0) /\ val_new = Bits(0) /\ val_after = Bits(0)
  /\ pc = "main"
  /\ exit_status = <<>>
  /\ success_msg = FALSE
  /\ status_ret = <<>>
  /\ log = <<>>
  /\ scans = 0 /\ populations = 0
  /\ io_failed = FALSE
  /\ finals = <<>>

Next ==
  \/ main_args
  \/ main_init
  \/ main_find
  \/ print_dev_info
  \/ ddio_configure_find
  \/ \E ok \in BOOLEAN : ddio_configure_read(ok)
  \/ \E ok \in BOOLEAN : ddio_configure_write(ok)
  \/ \E ok \in BOOLEAN : ddio_configure_readback(ok)
  \/ main_exit

Spec == Init /\ [][Next]_vars

(***************************************************************************)
(* ddio_status: find the device, read the register, decode bit 7.          *)
(***************************************************************************)
ddio_status_value(val) ==
  IF BitAnd(val, SKX_use_allocating_flow_wr_MASK) # {} THEN 1 ELSE 0

ddio_status ==
  /\ pc = "cfg_ret"
  /\ IF pacc = NULL_PACC
     THEN init_pci_access
     ELSE UNCHANGED <<pacc, populations>>
  /\ scans' = scans + 1
  /\ LET d == find_ddio_device(pacc'[1], nic_bus)
     IN IF d = NULL
        THEN exit(1) /\ UNCHANGED <<status_ret, log>>
        ELSE /\ status_ret' = <<ddio_status_value(pci_read_long(d, TRUE))>>
             /\ log' = Append(log, Access("read", d, pci_read_long(d, TRUE)))
             /\ pc' = "status_ret"
             /\ UNCHANGED exit_status
  /\ UNCHANGED <<argc, argv, nic_bus, use_allocating_flow_wr, nosnoopopwren, hw,
                 dev, cfg_dev, val_before, val_new, val_after, success_msg,
                 io_failed, finals>>

(***************************************************************************)
(* The register editor on its own: a caller that applies                   *)
(* ddio_configure(nic_bus, a, b) up to MaxApply times in a row and then    *)
(* reads the state with ddio_status, on registers that store what is       *)
(* written to them.                                                        *)
(***************************************************************************)
EditBusNumbers == {5, 16}
EditTargets == {23, 24}
EditFlags == {0, 1}

EditMachines ==
  UNION { [1 .. k -> { [bus |-> b, secondary |-> 6, subordinate |-> 23, ctrl |-> v] :
                         b \in EditBusNumbers, v \in EditRegVals }] : k \in 1 .. 2 }

InitEdit ==
  /\ argc = 0 /\ argv = <<>>
  /\ hw \in EditMachines
  /\ nic_bus \in EditTargets
  /\ use_allocating_flow_wr \in EditFlags
  /\ nosnoopopwren \in EditFlags
  /\ pacc = NULL_PACC
  /\ dev = NULL /\ cfg_dev = NULL
  /\ val_before = Bits(0) /\ val_new = Bits(0) /\ val_after = Bits(0)
  /\ pc = "configure"
  /\ exit_status = <<>>
  /\ success_msg = FALSE
  /\ status_ret = <<>>
  /\ log = <<>>
  /\ scans = 0 /\ populations = 0
  /\ io_failed = FALSE
  /\ finals = <<>>

call_again ==
  /\ pc = "cfg_ret"
  /\ Len(finals) < MaxApply
  /\ pc' = "configure"
  /\ UNCHANGED <<argc, argv, nic_bus, use_allocating_flow_wr, nosnoopopwren, hw,
                 pacc, dev, cfg_dev, val_before, val_new, val_after,
                 exit_status, success_msg, status_ret, log, scans, populations,
                 io_failed, finals>>

NextEdit ==
  \/ ddio_configure_find
  \/ ddio_configure_read(TRUE)
  \/ ddio_configure_write(TRUE)
  \/ ddio_configure_readback(TRUE)
  \/ call_again
  \/ ddio_status

SpecEdit == InitEdit /\ [][NextEdit]_vars

(***************************************************************************)
(* Properties.                                                             *)
(***************************************************************************)
\* the devices whose bus range makes them candidates for target bus nic
Candidates(nic) ==
  { i \in 1 .. Len(hw) : hw[i].subordinate = nic /\ hw[i].secondary <= nic }

\* main's call of find_ddio_device has returned
MainFound == scans >= 1 /\ argc = 4

OtherBits == BitPositions \ {3, 7}

Written == \E i \in 1 .. Len(log) : log[i].op = "write"

\* C1: find_ddio_device(b) returns a device with secondary <= b and
\* subordinate = b whenever the enumeration holds one, whatever that device's
\* own bus number is, and returns NULL only when it holds none.
C1_ReturnsCandidateIfAny ==
  MainFound =>
    /\ (Candidates(nic_bus) # {} => dev \in Candidates(nic_bus))
    /\ (dev = NULL => Candidates(nic_bus) = {})

\* C2: among the candidates, find_ddio_device returns one whose own bus
\* number is the smallest of all candidates, in whatever order they appear.
C2_ReturnsSmallestBus ==
  (MainFound /\ Candidates(nic_bus) # {}) =>
    /\ dev \in Candidates(nic_bus)
    /\ \A j \in Candidates(nic_bus) : hw[dev].bus <= hw[j].bus

\* C3: every value ddio_configure writes to offset 0x180 agrees with the
\* value it has just read from that register on every bit other than 3 and 7.
C3_OtherBitsPreserved ==
  \A i \in 1 .. Len(log) :
    log[i].op = "write" =>
      /\ i > 1
      /\ log[i - 1].op = "read"
      /\ log[i - 1].dev = log[i].dev
      /\ log[i].off = SKX_PERFCTRLSTS_0
      /\ \A k \in OtherBits : (k \in log[i].val) <=> (k \in log[i - 1].val)

\* a write from a value with other bits set, which changed bit 3 or bit 7
C3_Witness ==
  \E i \in 2 .. Len(log) :
    /\ log[i].op = "write"
    /\ log[i - 1].val \cap OtherBits # {}
    /\ log[i].val # log[i - 1].val

\* C4: after ddio_configure(bus, a, b) on a register that stores what is
\* written, bit 7 of the register is a and bit 3 is b, the read-back and a
\* following ddio_status decode the requested flags, and the two worked
\* examples (0x00000000 with 1,0 and 0x00000088 with 0,0) give 0x80 and 0.
C4_RequestedBitsStored ==
  /\ Written =>
       /\ (7 \in hw[cfg_dev].ctrl) <=> (use_allocating_flow_wr = 1)
       /\ (3 \in hw[cfg_dev].ctrl) <=> (nosnoopopwren = 1)
  /\ finals # <<>> =>
       /\ (7 \in val_after) <=> (use_allocating_flow_wr = 1)
       /\ (3 \in val_after) <=> (nosnoopopwren = 1)
  /\ pc = "status_ret" =>
       /\ status_ret = <<use_allocating_flow_wr>>
       /\ (3 \in log[Len(log)].val) <=> (nosnoopopwren = 1)
  /\ (Written /\ log[1].val = Bits(0)
        /\ use_allocating_flow_wr = 1 /\ nosnoopopwren = 0)
       => log[2].val = Bits(128)
  /\ (Written /\ log[1].val = Bits(136)
        /\ use_allocating_flow_wr = 0 /\ nosnoopopwren = 0)
       => log[2].val = Bits(0)

\* 0x00000088 was configured with (1, 0) and ddio_status read the result
C4_Witness ==
  /\ pc = "status_ret"
  /\ log[1].val = Bits(136)
  /\ use_allocating_flow_wr = 1 /\ nosnoopopwren = 0
  /\ status_ret = <<1>>
  /\ hw[cfg_dev].ctrl = Bits(128)

\* C5: when find_ddio_device returns no device, the run can only end with
\* exit status 1, and no access to offset 0x180 is made on any device.
C5_NotFoundIsFatal ==
  (MainFound /\ dev = NULL) =>
    /\ log = <<>>
    /\ pc \in {"print", "exited"}
    /\ (pc = "exited" => exit_status = <<1>>)

\* a machine with devices, none of them found, and the run ended
C5_Witness ==
  /\ MainFound /\ dev = NULL
  /\ Len(hw) > 0
  /\ pc = "exited" /\ exit_status = <<1>>

\* C6: an invocation whose argument count is not three, or whose flag
\* arguments denote a value other than 0 or 1, is rejected: no PCI
\* initialisation, scan or register access, and a non-zero exit status.
FlagDenotes01(s) == Atoi(s) \in {0, 1}

InvalidInvocation ==
  \/ argc # 4
  \/ ~FlagDenotes01(argv[2])
  \/ ~FlagDenotes01(argv[3])

C6_InvalidRejected ==
  InvalidInvocation =>
    /\ pc \in {"main", "exited"}
    /\ pacc = NULL_PACC /\ populations = 0 /\ scans = 0 /\ log = <<>>
    /\ (pc = "exited" => exit_status # <<0>>)

\* C7: a failed read or write of the control register is fatal: the process
\* exits with status 1 without reporting success, and status 0 is returned
\* only when the read, the write and the read-back all succeeded.
C7_IoFailureFatal ==
  /\ (pc = "exited" /\ io_failed) => (exit_status = <<1>> /\ ~success_msg)
  /\ exit_status = <<0>> => ~io_failed

\* C8: what the caller of ddio_configure sees (nothing is returned to it, so
\* the message and the exit status that follow) tells a run whose read-back
\* equals the value written from a run whose read-back does not.
C8_ReadBackExposed ==
  (pc = "exited" /\ finals # <<>>) =>
    ((val_after = val_new) <=> (exit_status = <<0>> /\ success_msg))

\* C9 as stated: the device list is walked at most once per invocation and
\* the enumeration is not modified after it is populated.
EnumerationIntact == pacc # NULL_PACC => pacc[1] = ScannedDevices

C10_Idempotent ==
  \A i \in 1 .. Len(finals) : finals[i] = finals[1]

\* two calls, the first of which changed the register
C10_Witness ==
  /\ Len(finals) >= 2
  /\ finals[1] # log[1].val
  /\ log[1].val \cap OtherBits # {}

====
